---- MODULE Spec2Model ----
(***************************************************************************)
(* Betting-ladder tracker (sbkladdergen).  The module models the ladder    *)
(* projection (calculateProfit, calculateLadder), the progress state       *)
(* machine (win / loss / delete) and the double-tap win confirmation of    *)
(* the React component App, in its two variants:                           *)
(*   "local" : src/src/App.js        (browser storage, synchronous)        *)
(*   "cloud" : src/unnamed/part_000  (document store, asynchronous writes) *)
(* Money is counted in cents.  Text inputs are sequences of one-character  *)
(* strings.                                                                *)
(***************************************************************************)
EXTENDS Integers, Sequences, FiniteSets, TLC

(* ------------------------------ constants ------------------------------ *)
CASHOUT_LIMIT == 50
WIN_TIMEOUT_MS == 3000
MAX_DAYS == 500

(* ------------------------------- bounds -------------------------------- *)
\* number of ladders that may be created in one behaviour
MaxCreates == 2
\* number of clock ticks into which the confirmation window is divided
TimerTicks == 1
\* largest of the small stakes, in cents, on which the projection is called
MaxStake == 12

NULL == 0
NaN == -999999999

(* ------------------------- text and number helpers --------------------- *)
Digits == {"0", "1", "2", "3", "4", "5", "6", "7", "8", "9"}

DigitVal(c) ==
    CASE c = "0" -> 0 [] c = "1" -> 1 [] c = "2" -> 2 [] c = "3" -> 3
      [] c = "4" -> 4 [] c = "5" -> 5 [] c = "6" -> 6 [] c = "7" -> 7
      [] c = "8" -> 8 [] c = "9" -> 9

\* String.prototype.slice(from) with a 0-based index
slice(s, from) == IF from >= Len(s) THEN << >> ELSE SubSeq(s, from + 1, Len(s))

RECURSIVE trimStart(_)
trimStart(s) == IF Len(s) > 0 /\ s[1] = " " THEN trimStart(Tail(s)) ELSE s

RECURSIVE trimEnd(_)
trimEnd(s) ==
    IF Len(s) > 0 /\ s[Len(s)] = " " THEN trimEnd(SubSeq(s, 1, Len(s) - 1)) ELSE s

\* String.prototype.trim
trim(s) == trimEnd(trimStart(s))

\* s.replace(/[^0-9.]/g, '')
sanitize(s) == SelectSeq(s, LAMBDA c : c \in Digits \cup {"."})

\* number of consecutive digits of s starting at position i (1-based)
RECURSIVE DigitRun(_, _)
DigitRun(s, i) == IF i <= Len(s) /\ s[i] \in Digits THEN 1 + DigitRun(s, i + 1) ELSE 0

\* value of the n digits of s starting at position i
RECURSIVE DigitsValue(_, _, _)
DigitsValue(s, i, n) ==
    IF n = 0 THEN 0 ELSE DigitsValue(s, i, n - 1) * 10 + DigitVal(s[i + n - 1])

\* parseFloat: leading blanks, optional sign, digits, optional fraction; the
\* rest of the text is ignored.  The result is in hundredths (value * 100);
\* fraction digits after the second are outside the texts of this model.
parseFloat(s) ==
    LET t == trimStart(s)
        hasSign == Len(t) > 0 /\ t[1] \in {"+", "-"}
        p == IF hasSign THEN 2 ELSE 1
        nInt == DigitRun(t, p)
        q == p + nInt
        hasDot == q <= Len(t) /\ t[q] = "."
        nFrac == IF hasDot THEN DigitRun(t, q + 1) ELSE 0
        frac == IF nFrac = 0 THEN 0
                ELSE IF nFrac = 1 THEN DigitVal(t[q + 1]) * 10
                ELSE DigitsValue(t, q + 1, 2)
        mag == DigitsValue(t, p, nInt) * 100 + frac
    IN  IF nInt = 0 /\ nFrac = 0 THEN NaN
        ELSE IF hasSign /\ t[1] = "-" THEN 0 - mag ELSE mag

isNaN(x) == x = NaN

\* newOdds.match(/^[\+\-]\d+$/)
matchOdds(s) ==
    /\ Len(s) >= 2
    /\ s[1] \in {"+", "-"}
    /\ \A i \in 2..Len(s) : s[i] \in Digits

\* a / b rounded to the nearest integer, halves up (a >= 0, b > 0):
\* Number.prototype.toFixed(2) applied to an amount held in cents, which takes
\* the larger neighbour when the number is exactly half way
RoundDiv(a, b) == (a \div b) + (IF 2 * (a % b) >= b THEN 1 ELSE 0)

\* the results profit.toFixed(2) can give for the quotient a / b.  profit is a
\* binary floating-point number: a quotient that is exactly half way between
\* two cents (x.xx5) has no exact double, the product or quotient computed in
\* doubles lies just below or just above it, and toFixed rounds what it is
\* given.  Every other quotient is further from the half than the error of a
\* double, and is rounded as the exact quotient is.
toFixedOutcomes(a, b) ==
    IF 2 * (a % b) = b THEN {a \div b, a \div b + 1} ELSE {RoundDiv(a, b)}

(* ------------------------------ projection ----------------------------- *)
\* stake in cents, oddsString a text; the result is in cents.  A quotient
\* exactly half way between two cents is taken to the upper cent here;
\* calculateProfitOutcomes gives both cents a double can lead to.  No such
\* quotient arises in the ladders of Fills, EdgeFills and LowFills.
calculateProfit(stake, oddsString) ==
    LET trimmedOdds == trim(oddsString)
        sign == trimmedOdds[1]
        num == parseFloat(slice(trimmedOdds, 1))
    IN  IF Len(trimmedOdds) < 2 THEN 0
        ELSE IF isNaN(num) \/ num <= 0 THEN 0
        ELSE IF sign = "+" THEN RoundDiv(stake * num, 10000)
        ELSE IF sign = "-" THEN RoundDiv(stake * 10000, num)
        ELSE 0

\* the values a call calculateProfit(stake, oddsString) can return, the
\* doubles of its arithmetic taken into account
calculateProfitOutcomes(stake, oddsString) ==
    LET trimmedOdds == trim(oddsString)
        sign == trimmedOdds[1]
        num == parseFloat(slice(trimmedOdds, 1))
    IN  IF Len(trimmedOdds) < 2 THEN {0}
        ELSE IF isNaN(num) \/ num <= 0 THEN {0}
        ELSE IF sign = "+" THEN toFixedOutcomes(stake * num, 10000)
        ELSE IF sign = "-" THEN toFixedOutcomes(stake * 10000, num)
        ELSE {0}

\* ladderLoop flagging every step that gains as a goal day
RECURSIVE ladderLoop_flagsEveryGain(_, _, _, _, _, _)
ladderLoop_flagsEveryGain(stake, finalGoal, oddsStr, ladder, fromDay, toDay) ==
    IF fromDay > toDay THEN ladder
    ELSE IF fromDay < toDay
    THEN LET mid == (fromDay + toDay) \div 2
             firstHalf == ladderLoop_flagsEveryGain(stake, finalGoal, oddsStr, ladder, fromDay, mid)
         IN  IF Len(firstHalf) < Len(ladder) + (mid - fromDay + 1) THEN firstHalf
             ELSE ladderLoop_flagsEveryGain(stake, finalGoal, oddsStr, firstHalf, mid + 1, toDay)
    ELSE LET currentStake == IF Len(ladder) = 0 THEN stake
                             ELSE ladder[Len(ladder)].nextBalance
             profit == calculateProfit(currentStake, oddsStr)
             nextBalance == currentStake + profit
         IN  IF ~(currentStake < finalGoal) THEN ladder
             ELSE Append(ladder, [day |-> fromDay,
                                  stake |-> currentStake,
                                  profit |-> profit,
                                  nextBalance |-> nextBalance,
                                  isGoalDay |-> nextBalance > currentStake])

\* ladderLoop without the assignment currentStake = nextBalance: every step
\* stakes what the step before it staked
RECURSIVE ladderLoop_keepsStake(_, _, _, _, _, _)
ladderLoop_keepsStake(stake, finalGoal, oddsStr, ladder, fromDay, toDay) ==
    IF fromDay > toDay THEN ladder
    ELSE IF fromDay < toDay
    THEN LET mid == (fromDay + toDay) \div 2
             firstHalf == ladderLoop_keepsStake(stake, finalGoal, oddsStr, ladder, fromDay, mid)
         IN  IF Len(firstHalf) < Len(ladder) + (mid - fromDay + 1) THEN firstHalf
             ELSE ladderLoop_keepsStake(stake, finalGoal, oddsStr, firstHalf, mid + 1, toDay)
    ELSE LET currentStake == IF Len(ladder) = 0 THEN stake
                             ELSE ladder[Len(ladder)].stake
             profit == calculateProfit(currentStake, oddsStr)
             nextBalance == currentStake + profit
         IN  IF ~(currentStake < finalGoal) THEN ladder
             ELSE Append(ladder, [day |-> fromDay,
                                  stake |-> currentStake,
                                  profit |-> profit,
                                  nextBalance |-> nextBalance,
                                  isGoalDay |-> nextBalance >= finalGoal])

\* the while loop of calculateLadder, for the days fromDay..toDay: the days are
\* halved until one day is left, which is one pass of the loop body, and the
\* second half is not entered when the loop ended in the first.  ladder holds
\* the steps pushed so far; currentStake is the nextBalance of its last step,
\* so that after the goal day (the break) the loop condition is false
RECURSIVE ladderLoop(_, _, _, _, _, _)
ladderLoop(stake, finalGoal, oddsStr, ladder, fromDay, toDay) ==
    IF fromDay > toDay THEN ladder
    ELSE IF fromDay < toDay
    THEN LET mid == (fromDay + toDay) \div 2
             firstHalf == ladderLoop(stake, finalGoal, oddsStr, ladder, fromDay, mid)
         IN  IF Len(firstHalf) < Len(ladder) + (mid - fromDay + 1) THEN firstHalf
             ELSE ladderLoop(stake, finalGoal, oddsStr, firstHalf, mid + 1, toDay)
    ELSE LET currentStake == IF Len(ladder) = 0 THEN stake
                             ELSE ladder[Len(ladder)].nextBalance
             profit == calculateProfit(currentStake, oddsStr)
             nextBalance == currentStake + profit
         IN  IF ~(currentStake < finalGoal) THEN ladder
             ELSE Append(ladder, [day |-> fromDay,
                                  stake |-> currentStake,
                                  profit |-> profit,
                                  nextBalance |-> nextBalance,
                                  isGoalDay |-> nextBalance >= finalGoal])

\* calculateLadder counting the days from 0
calculateLadder_fromDayZero(stake, goal, oddsStr) ==
    ladderLoop(stake, goal, oddsStr, << >>, 0, MAX_DAYS - 1)

\* calculateLadder with the loop allowed one day past MAX_DAYS
calculateLadder_pastCeiling(stake, goal, oddsStr) ==
    ladderLoop(stake, goal, oddsStr, << >>, 1, MAX_DAYS + 1)

\* stake and goal are numbers already, which parseFloat returns as they are
calculateLadder(stake, goal, oddsStr) ==
    ladderLoop(stake, goal, oddsStr, << >>, 1, MAX_DAYS)

(* -------------------------------- texts -------------------------------- *)
T_empty == << >>
T_A == <<"A">>
T_100 == <<"1", "0", "0">>
T_d100 == <<"$", "1", "0", "0">>
T_150 == <<"1", "5", "0">>
T_1000 == <<"1", "0", "0", "0">>
T_p150 == <<"+", "1", "5", "0">>
T_m110 == <<"-", "1", "1", "0">>
T_abc == <<"a", "b", "c">>

\* the forms a user fills in: [name, start, goal, odds]
Fills ==
    { [name |-> T_A, start |-> T_100,  goal |-> T_150,  odds |-> T_m110],
      [name |-> T_A, start |-> T_d100, goal |-> T_1000, odds |-> T_p150],
      [name |-> T_A, start |-> T_100,  goal |-> T_150,  odds |-> T_abc] }

(* -------------------------------- JSON --------------------------------- *)
\* JSON.stringify / JSON.parse of a value: the stored value is a string,
\* told apart from the value it encodes
JSON_stringify(x) == [json |-> x]
isJsonString(x) == DOMAIN x = {"json"}
JSON_parse(x) == x.json

(* -------------------------------- state -------------------------------- *)
VARIABLES
    variant,            \* "local" (src/src/App.js) or "cloud" (part_000)
    ladderNameInput, startStakeInput, goalAmountInput, oddsInput,
    allLadders,         \* sequence of ladder records shown by the component
    selectedLadderId,   \* id of the selected ladder, or NULL
    message,
    isSaving,
    winClickState,      \* "ready" or "pending"
    isDeletePending,
    timerLeft,          \* ms left on the confirmation timeout, NoTimer if none
    idSource,           \* last id handed out (Date.now() / document id)
    docs,               \* cloud: the documents of the ladder collection
    inflight,           \* cloud: the store write awaited by a handler
    snapPending,        \* cloud: a snapshot is due to the onSnapshot listener
    localStorage,       \* local: the item stored under STORAGE_KEY, or NoItem
    mountState,         \* local: how far the mount is, and the update it queued
    calc                \* a call of calculateProfit / calculateLadder on its own

formVars == <<ladderNameInput, startStakeInput, goalAmountInput, oddsInput>>
storeVars == <<docs, inflight, snapPending>>
mountVars == <<localStorage, mountState>>
vars == <<variant, ladderNameInput, startStakeInput, goalAmountInput, oddsInput,
          allLadders, selectedLadderId, message, isSaving, winClickState,
          isDeletePending, timerLeft, idSource, docs, inflight, snapPending,
          localStorage, mountState, calc>>

NoTimer == 0 - 1
NoWrite == [kind |-> "none"]
TickMs == WIN_TIMEOUT_MS \div TimerTicks
\* localStorage.getItem(STORAGE_KEY) of a key that was never set: null
NoItem == [absent |-> TRUE]
\* the component is mounted: its mount effects and the render they asked for
\* are done
Mounted == [phase |-> "mounted", item |-> NoItem, ladders |-> << >>, select |-> NULL]
NoCalc == [stake |-> 0, goal |-> 0, odds |-> << >>, profit |-> 0, ladder |-> << >>,
           phase |-> "none"]

\* the component after its construction, in the given variant, with the
\* given item in storage, mount progress and last id
InitAppWith(v, item, mount, lastId) ==
    /\ variant = v
    /\ ladderNameInput = T_empty
    /\ startStakeInput = T_empty
    /\ goalAmountInput = T_empty
    /\ oddsInput = T_empty
    /\ allLadders = << >>
    /\ selectedLadderId = NULL
    /\ message = IF variant = "local" THEN "Ready to track your ladders!"
                 ELSE "Authentication complete. Loading data..."
    /\ isSaving = FALSE
    /\ winClickState = "ready"
    /\ isDeletePending = FALSE
    /\ timerLeft = NoTimer
    /\ idSource = lastId
    /\ docs = << >>
    /\ inflight = NoWrite
    /\ snapPending = FALSE
    /\ localStorage = item
    /\ mountState = mount

\* the component mounted on an empty store
InitApp(v) ==
    InitAppWith(v, IF v = "local" THEN JSON_stringify(<< >>) ELSE NoItem, Mounted, 0)

Init ==
    /\ \E v \in {"local", "cloud"} : InitApp(v)
    /\ calc = NoCalc

(* --------------------------- derived values ---------------------------- *)
\* allLadders.find(l => l.id === selectedLadderId) || null, as a position
activeIndexOf(ladders, sel) ==
    IF \E i \in 1..Len(ladders) : ladders[i].id = sel
    THEN CHOOSE i \in 1..Len(ladders) :
            /\ ladders[i].id = sel
            /\ \A j \in 1..(i - 1) : ladders[j].id # sel
    ELSE 0

activeIndex == activeIndexOf(allLadders, selectedLadderId)
hasActiveLadder == activeIndex # 0
activeLadder == allLadders[activeIndex]

isGoalReached ==
    hasActiveLadder /\ activeLadder.currentDayIndex >= Len(activeLadder.ladderData)
isLadderReady == hasActiveLadder /\ Len(activeLadder.ladderData) > 0

\* isCashoutAvailable without the check that steps remain
isCashoutAvailable_anyState ==
    hasActiveLadder /\ activeLadder.currentAmount >= CASHOUT_LIMIT * 100

\* the cashout reminder is shown; amounts are in cents
isCashoutAvailable ==
    /\ hasActiveLadder
    /\ activeLadder.currentAmount >= CASHOUT_LIMIT * 100
    /\ activeLadder.currentDayIndex < Len(activeLadder.ladderData)

\* timerAfter without the effect's cleanup: a timeout is never cleared
timerAfter_noCleanup(newWinClickState) ==
    IF newWinClickState = winClickState THEN timerLeft
    ELSE IF newWinClickState = "pending" THEN WIN_TIMEOUT_MS
    ELSE timerLeft

\* the effect on [winClickState]: a change of winClickState clears the
\* running timeout and, when the new state is pending, starts a new one
timerAfter(newWinClickState) ==
    IF newWinClickState = winClickState THEN timerLeft
    ELSE IF newWinClickState = "pending" THEN WIN_TIMEOUT_MS
    ELSE NoTimer

(* --------------------------- the save effect --------------------------- *)
\* saveEffect with an empty dependency list: it runs on mount only
saveEffect_onMountOnly == UNCHANGED localStorage

\* App.js effect on [allLadders]: after a render in which allLadders has
\* changed, the list is written to storage
saveEffect ==
    localStorage' = IF variant = "local" /\ allLadders' # allLadders
                    THEN JSON_stringify(allLadders')
                    ELSE localStorage

(* ------------------------------- the form ------------------------------ *)
\* the four onChange handlers of the form, taken together
typeInputs ==
    /\ variant = "cloud" => ~isSaving
    /\ idSource < MaxCreates          \* the form is used while ladders can be created
    /\ \E f \in Fills :
        /\ ladderNameInput' = f.name
        /\ startStakeInput' = f.start
        /\ goalAmountInput' = f.goal
        /\ oddsInput' = f.odds
    /\ UNCHANGED <<variant, calc, allLadders, selectedLadderId, message, isSaving,
                   winClickState, isDeletePending, timerLeft, idSource, storeVars>>
    /\ saveEffect
    /\ UNCHANGED mountState

createEnabled ==
    /\ ~isSaving
    /\ trim(ladderNameInput) # << >>
    /\ trim(startStakeInput) # << >>
    /\ trim(goalAmountInput) # << >>
    /\ trim(oddsInput) # << >>

newStart == parseFloat(sanitize(startStakeInput))
newGoal == parseFloat(sanitize(goalAmountInput))
newName == trim(ladderNameInput)
newOdds == trim(oddsInput)

inputInvalid ==
    \/ newName = << >>
    \/ isNaN(newStart)
    \/ isNaN(newGoal)
    \/ newStart <= 0
    \/ newGoal <= newStart
    \/ newOdds = << >>
    \/ ~matchOdds(newOdds)

\* newLadderRecord starting the balance at the goal and past the first step
newLadderRecord_atGoal(id, ladderData) ==
    [id |-> id,
     name |-> newName,
     startStake |-> newStart,
     goalAmount |-> newGoal,
     odds |-> newOdds,
     currentAmount |-> newGoal,
     currentDayIndex |-> 1,
     ladderData |-> ladderData]

\* const newLadder = {...}; the timestamp, which nothing reads, is left out
newLadderRecord(id, ladderData) ==
    [id |-> id,
     name |-> newName,
     startStake |-> newStart,
     goalAmount |-> newGoal,
     odds |-> newOdds,
     currentAmount |-> newStart,
     currentDayIndex |-> 0,
     ladderData |-> ladderData]

\* handleNewLadderAt without the goal-above-start check and without the check
\* of the projection's length
handleNewLadderAt_unchecked(now) ==
    /\ variant = "local"
    /\ createEnabled
    /\ IF \/ newName = << >> \/ isNaN(newStart) \/ isNaN(newGoal) \/ newStart <= 0
          \/ newOdds = << >> \/ ~matchOdds(newOdds)
       THEN /\ message' = "Invalid input."
            /\ UNCHANGED <<allLadders, selectedLadderId, formVars, idSource>>
       ELSE /\ now <= MaxCreates
            /\ idSource' = IF now > idSource THEN now ELSE idSource
            /\ allLadders' = Append(allLadders,
                    newLadderRecord(now, calculateLadder(newStart, newGoal, newOdds)))
            /\ selectedLadderId' = now
            /\ ladderNameInput' = T_empty
            /\ startStakeInput' = T_empty
            /\ goalAmountInput' = T_empty
            /\ oddsInput' = T_empty
            /\ message' = "New ladder created."
    /\ UNCHANGED <<variant, calc, isSaving, winClickState, isDeletePending, timerLeft,
                   storeVars>>
    /\ saveEffect
    /\ UNCHANGED mountState

\* App.js handleNewLadder, with now the value Date.now() returns
handleNewLadderAt(now) ==
    /\ variant = "local"
    /\ createEnabled
    /\ IF inputInvalid
       THEN /\ message' = "Invalid input."
            /\ UNCHANGED <<allLadders, selectedLadderId, formVars, idSource>>
       ELSE LET newLadderData == calculateLadder(newStart, newGoal, newOdds)
            IN  IF Len(newLadderData) = 0
                THEN /\ message' = "Calculation error."
                     /\ UNCHANGED <<allLadders, selectedLadderId, formVars, idSource>>
                ELSE /\ now <= MaxCreates
                     /\ idSource' = IF now > idSource THEN now ELSE idSource
                     /\ allLadders' = Append(allLadders,
                                             newLadderRecord(now, newLadderData))
                     /\ selectedLadderId' = now
                     /\ ladderNameInput' = T_empty
                     /\ startStakeInput' = T_empty
                     /\ goalAmountInput' = T_empty
                     /\ oddsInput' = T_empty
                     /\ message' = "New ladder created."
    /\ UNCHANGED <<variant, calc, isSaving, winClickState, isDeletePending, timerLeft,
                   storeVars>>
    /\ saveEffect
    /\ UNCHANGED mountState

\* handleNewLadder called when the clock has moved on since the last creation
handleNewLadder == handleNewLadderAt(idSource + 1)

(* ----------------------- selection and deletion ------------------------ *)
\* onChange of the ladder selector
selectLadder ==
    /\ Len(allLadders) > 0
    /\ ~isSaving
    /\ \E i \in 1..Len(allLadders) :
        /\ allLadders[i].id # selectedLadderId
        /\ selectedLadderId' = allLadders[i].id
    /\ isDeletePending' = FALSE
    /\ snapPending' = IF variant = "cloud" THEN TRUE ELSE snapPending
    /\ UNCHANGED <<variant, calc, formVars, allLadders, message, isSaving, winClickState,
                   timerLeft, idSource, docs, inflight>>
    /\ saveEffect
    /\ UNCHANGED mountState

\* onClick of the trash button
requestDelete ==
    /\ hasActiveLadder
    /\ ~isSaving
    /\ ~isDeletePending
    /\ isDeletePending' = TRUE
    /\ UNCHANGED <<variant, calc, formVars, allLadders, selectedLadderId, message, isSaving,
                   winClickState, timerLeft, idSource, storeVars>>
    /\ saveEffect
    /\ UNCHANGED mountState

\* onClick of Cancel in the delete confirmation
cancelDelete ==
    /\ isDeletePending
    /\ hasActiveLadder
    /\ isDeletePending' = FALSE
    /\ UNCHANGED <<variant, calc, formVars, allLadders, selectedLadderId, message, isSaving,
                   winClickState, timerLeft, idSource, storeVars>>
    /\ saveEffect
    /\ UNCHANGED mountState

\* withoutLadder dropping the ladders in front of the deleted one too
withoutLadder_andBefore(ladders, id) ==
    IF \E i \in 1..Len(ladders) : ladders[i].id = id
    THEN SubSeq(ladders, 1 + (CHOOSE i \in 1..Len(ladders) : ladders[i].id = id),
                Len(ladders))
    ELSE ladders

\* prev.filter(ladder => ladder.id !== id)
withoutLadder(ladders, id) == SelectSeq(ladders, LAMBDA l : l.id # id)

\* App.js handleConfirmDelete
handleConfirmDelete ==
    /\ variant = "local"
    /\ hasActiveLadder
    /\ isDeletePending
    /\ allLadders' = withoutLadder(allLadders, activeLadder.id)
    /\ selectedLadderId' = IF Len(allLadders) > 1 THEN allLadders[1].id ELSE NULL
    /\ message' = "Ladder deleted."
    /\ isDeletePending' = FALSE
    /\ UNCHANGED <<variant, calc, formVars, isSaving, winClickState, timerLeft, idSource,
                   storeVars>>
    /\ saveEffect
    /\ UNCHANGED mountState

(* --------------------------- win and loss ------------------------------ *)
\* mapWin skipping a step
mapWin_skips(ladders, id, newAmount) ==
    [i \in 1..Len(ladders) |->
        IF ladders[i].id = id
        THEN [ladders[i] EXCEPT !.currentAmount = newAmount,
                                !.currentDayIndex = ladders[i].currentDayIndex + 2]
        ELSE ladders[i]]

\* mapWin moving the goal to the balance just won
mapWin_movesGoal(ladders, id, newAmount) ==
    [i \in 1..Len(ladders) |->
        IF ladders[i].id = id
        THEN [ladders[i] EXCEPT !.currentAmount = newAmount,
                                !.currentDayIndex = ladders[i].currentDayIndex + 1,
                                !.goalAmount = newAmount]
        ELSE ladders[i]]

\* prev.map(ladder => ladder.id === id ? {...ladder, ...} : ladder), WIN
mapWin(ladders, id, newAmount) ==
    [i \in 1..Len(ladders) |->
        IF ladders[i].id = id
        THEN [ladders[i] EXCEPT !.currentAmount = newAmount,
                                !.currentDayIndex = ladders[i].currentDayIndex + 1]
        ELSE ladders[i]]

\* mapLoss resetting the balance but not the step index
mapLoss_keepsIndex(ladders, id) ==
    [i \in 1..Len(ladders) |->
        IF ladders[i].id = id
        THEN [ladders[i] EXCEPT !.currentAmount = ladders[i].startStake]
        ELSE ladders[i]]

\* mapLoss going back one step instead of to the start
mapLoss_stepsBack(ladders, id) ==
    [i \in 1..Len(ladders) |->
        IF ladders[i].id = id
        THEN [ladders[i] EXCEPT
                !.currentAmount = IF ladders[i].currentDayIndex <= 1
                                  THEN ladders[i].startStake
                                  ELSE ladders[i].ladderData[ladders[i].currentDayIndex - 1].nextBalance,
                !.currentDayIndex = IF ladders[i].currentDayIndex = 0 THEN 0
                                    ELSE ladders[i].currentDayIndex - 1]
        ELSE ladders[i]]

\* prev.map(ladder => ladder.id === id ? {...ladder, ...} : ladder), LOSS
mapLoss(ladders, id) ==
    [i \in 1..Len(ladders) |->
        IF ladders[i].id = id
        THEN [ladders[i] EXCEPT !.currentAmount = ladders[i].startStake,
                                !.currentDayIndex = 0]
        ELSE ladders[i]]

\* const completedStep = activeLadder.ladderData[activeLadder.currentDayIndex]
completedStep == activeLadder.ladderData[activeLadder.currentDayIndex + 1]

\* winAmount taking the projected balance on the goal day too
winAmount_projected == completedStep.nextBalance

\* winAmount taking the step's profit for the new balance
winAmount_profitOnly == completedStep.profit

winAmount ==
    IF completedStep.isGoalDay THEN activeLadder.goalAmount ELSE completedStep.nextBalance

\* App.js handleProgressUpdate: the part of a step it decides
handleProgressUpdate(type) ==
    IF ~hasActiveLadder \/ isSaving
    THEN UNCHANGED <<allLadders, message, isSaving, storeVars>>
    ELSE /\ isSaving' = FALSE
         /\ UNCHANGED storeVars
         /\ IF type = "WIN"
            THEN IF activeLadder.currentDayIndex >= Len(activeLadder.ladderData)
                 THEN /\ message' = "Goal already reached. No more steps."
                      /\ UNCHANGED allLadders
                 ELSE /\ allLadders' = mapWin(allLadders, activeLadder.id, winAmount)
                      /\ message' = IF completedStep.isGoalDay THEN "GOAL REACHED!"
                                    ELSE "WIN confirmed!"
            ELSE /\ allLadders' = mapLoss(allLadders, activeLadder.id)
                 /\ message' = "LOSS. Ladder reset."

\* updateDocWin writing an index one step further
updateDocWin_twoSteps(ds, id, newAmount, newIndex) ==
    [i \in 1..Len(ds) |->
        IF ds[i].id = id
        THEN [ds[i] EXCEPT !.currentAmount = newAmount, !.currentDayIndex = newIndex + 1]
        ELSE ds[i]]

\* updateDoc(docRef, fields) applied to the documents of the collection
updateDocWin(ds, id, newAmount, newIndex) ==
    [i \in 1..Len(ds) |->
        IF ds[i].id = id
        THEN [ds[i] EXCEPT !.currentAmount = newAmount, !.currentDayIndex = newIndex]
        ELSE ds[i]]

\* updateDocLoss writing the step index but not the balance
updateDocLoss_keepsAmount(ds, id, startStake) ==
    [i \in 1..Len(ds) |->
        IF ds[i].id = id
        THEN [ds[i] EXCEPT !.currentDayIndex = 0]
        ELSE ds[i]]

updateDocLoss(ds, id, startStake) ==
    [i \in 1..Len(ds) |->
        IF ds[i].id = id
        THEN [ds[i] EXCEPT !.currentAmount = startStake, !.currentDayIndex = 0]
        ELSE ds[i]]

\* the write a handler awaits: what it is, the documents it would restore when
\* refused, and what the handler remembers for its message
sentWrite(kind, id, goal) ==
    [kind |-> kind, id |-> id, before |-> docs, status |-> "sent", goal |-> goal]

\* part_000 handleProgressUpdate, up to its await
handleProgressUpdateCloud(type) ==
    IF ~hasActiveLadder \/ isSaving
    THEN UNCHANGED <<allLadders, message, isSaving, storeVars>>
    ELSE IF type = "WIN" /\ activeLadder.currentDayIndex >= Len(activeLadder.ladderData)
    THEN /\ message' = "Goal already reached. No more steps."
         /\ isSaving' = FALSE
         /\ UNCHANGED <<allLadders, storeVars>>
    ELSE /\ isSaving' = TRUE
         /\ docs' = IF type = "WIN"
                    THEN updateDocWin(docs, activeLadder.id, winAmount,
                                      activeLadder.currentDayIndex + 1)
                    ELSE updateDocLoss(docs, activeLadder.id, activeLadder.startStake)
         /\ inflight' = sentWrite(type, activeLadder.id,
                                    type = "WIN" /\ completedStep.isGoalDay)
         /\ snapPending' = TRUE
         /\ UNCHANGED <<allLadders, message>>

progressUpdate(type) ==
    IF variant = "local" THEN handleProgressUpdate(type)
    ELSE handleProgressUpdateCloud(type)

\* winDisabled without the delete confirmation: Win stays available while a
\* delete is to be confirmed
winDisabled_ignoresDelete == ~isLadderReady \/ isGoalReached \/ isSaving

\* the disabled attribute of the Win button
winDisabled == ~isLadderReady \/ isGoalReached \/ isSaving \/ isDeletePending

\* handleWinTapFirst applying the win on the first tap already
handleWinTapFirst_applies ==
    /\ winClickState = "ready"
    /\ winClickState' = "pending"
    /\ timerLeft' = timerAfter("pending")
    /\ progressUpdate("WIN")
    /\ UNCHANGED <<variant, calc, formVars, selectedLadderId, isDeletePending, idSource>>
    /\ saveEffect
    /\ UNCHANGED mountState

\* handleWinTap, the branch taken when winClickState is ready
handleWinTapFirst ==
    /\ winClickState = "ready"
    /\ winClickState' = "pending"
    /\ timerLeft' = timerAfter("pending")
    /\ message' = "Tap WIN again to confirm."
    /\ UNCHANGED <<variant, calc, formVars, allLadders, selectedLadderId, isSaving,
                   isDeletePending, idSource, storeVars>>
    /\ saveEffect
    /\ UNCHANGED mountState

\* handleWinTap, the branch taken when winClickState is pending
handleWinTapSecond ==
    /\ winClickState = "pending"
    /\ winClickState' = "ready"
    /\ timerLeft' = timerAfter("ready")
    /\ progressUpdate("WIN")
    /\ UNCHANGED <<variant, calc, formVars, selectedLadderId, isDeletePending, idSource>>
    /\ saveEffect
    /\ UNCHANGED mountState

\* handleWinTap, with its early return
handleWinTap ==
    IF ~isLadderReady \/ isGoalReached \/ isSaving
    THEN UNCHANGED vars
    ELSE handleWinTapFirst \/ handleWinTapSecond

\* onClick of the Win button
clickWin ==
    /\ ~winDisabled
    /\ handleWinTap

\* lossDisabled without the goal check: Loss stays available on a finished ladder
lossDisabled_ignoresGoal ==
    \/ ~isLadderReady \/ isSaving
    \/ winClickState = "pending" \/ isDeletePending

\* the disabled attribute of the Loss button
lossDisabled ==
    \/ ~isLadderReady \/ isGoalReached \/ isSaving
    \/ winClickState = "pending" \/ isDeletePending

\* onClick of the Loss button
clickLoss ==
    /\ ~lossDisabled
    /\ progressUpdate("LOSS")
    /\ UNCHANGED <<variant, calc, formVars, selectedLadderId, winClickState, isDeletePending,
                   timerLeft, idSource>>
    /\ saveEffect
    /\ UNCHANGED mountState

(* ------------------------ confirmation timeout ------------------------- *)
\* time passes on the running timeout
tick ==
    /\ timerLeft > 0
    /\ timerLeft' = IF timerLeft > TickMs THEN timerLeft - TickMs ELSE 0
    /\ UNCHANGED <<variant, calc, formVars, allLadders, selectedLadderId, message, isSaving,
                   winClickState, isDeletePending, idSource, storeVars>>
    /\ saveEffect
    /\ UNCHANGED mountState

\* winTimeout confirming the win instead of dropping it
winTimeout_confirms ==
    /\ timerLeft = 0
    /\ winClickState' = "ready"
    /\ timerLeft' = NoTimer
    /\ IF hasActiveLadder /\ ~isGoalReached /\ ~isSaving
       THEN /\ allLadders' = mapWin(allLadders, activeLadder.id, winAmount)
            /\ message' = "WIN confirmed!"
       ELSE /\ message' = "Confirmation window expired. Tap Win again."
            /\ UNCHANGED allLadders
    /\ UNCHANGED <<variant, calc, formVars, selectedLadderId, isSaving,
                   isDeletePending, idSource, storeVars>>
    /\ saveEffect
    /\ UNCHANGED mountState

\* the setTimeout callback
winTimeout ==
    /\ timerLeft = 0
    /\ winClickState' = "ready"
    /\ message' = "Confirmation window expired. Tap Win again."
    /\ timerLeft' = NoTimer
    /\ UNCHANGED <<variant, calc, formVars, allLadders, selectedLadderId, isSaving,
                   isDeletePending, idSource, storeVars>>
    /\ saveEffect
    /\ UNCHANGED mountState

(* ------------------------- the document store -------------------------- *)
\* snapshot.docs.map(...): the ladders the listener builds from the documents
loadedLaddersOf(ds) ==
    [i \in 1..Len(ds) |->
        [ds[i] EXCEPT !.ladderData =
            IF isJsonString(ds[i].ladderData) THEN JSON_parse(ds[i].ladderData)
            ELSE << >>]]

\* the selection the listener leaves, given the ladders it loaded
repairedSelection(loaded, sel) ==
    IF sel = NULL /\ Len(loaded) > 0 THEN loaded[1].id
    ELSE IF sel # NULL /\ ~(\E i \in 1..Len(loaded) : loaded[i].id = sel)
    THEN (IF Len(loaded) > 0 THEN loaded[1].id ELSE NULL)
    ELSE sel

\* part_000 onSnapshot listener; a changed selection re-runs the effect, and
\* the new listener is handed a snapshot of its own
onSnapshot ==
    /\ variant = "cloud"
    /\ snapPending
    /\ allLadders' = loadedLaddersOf(docs)
    /\ selectedLadderId' = repairedSelection(allLadders', selectedLadderId)
    /\ snapPending' = (selectedLadderId' # selectedLadderId)
    /\ UNCHANGED <<variant, calc, formVars, message, isSaving, winClickState,
                   isDeletePending, timerLeft, idSource, docs, inflight>>
    /\ saveEffect
    /\ UNCHANGED mountState

\* part_000 handleNewLadder, up to its await
handleNewLadderCloud ==
    /\ variant = "cloud"
    /\ createEnabled
    /\ IF inputInvalid
       THEN /\ message' = "Invalid input."
            /\ UNCHANGED <<isSaving, idSource, storeVars>>
       ELSE LET newLadderData == calculateLadder(newStart, newGoal, newOdds)
            IN  IF Len(newLadderData) = 0
                THEN /\ message' = "Calculation error."
                     /\ isSaving' = FALSE
                     /\ UNCHANGED <<idSource, storeVars>>
                ELSE /\ idSource < MaxCreates
                     /\ idSource' = idSource + 1
                     /\ isSaving' = TRUE
                     /\ docs' = Append(docs,
                            newLadderRecord(idSource', JSON_stringify(newLadderData)))
                     /\ inflight' = sentWrite("CREATE", idSource', FALSE)
                     /\ snapPending' = TRUE
                     /\ UNCHANGED message
    /\ UNCHANGED <<variant, calc, formVars, allLadders, selectedLadderId, winClickState,
                   isDeletePending, timerLeft>>
    /\ saveEffect
    /\ UNCHANGED mountState

\* handleConfirmDeleteCloud with a Confirm button that ignores isSaving
handleConfirmDeleteCloud_whileSaving ==
    /\ variant = "cloud"
    /\ hasActiveLadder
    /\ isDeletePending
    /\ isSaving' = TRUE
    /\ docs' = withoutLadder(docs, activeLadder.id)
    /\ inflight' = sentWrite("DELETE", activeLadder.id, FALSE)
    /\ snapPending' = TRUE
    /\ UNCHANGED <<variant, calc, formVars, allLadders, selectedLadderId, message,
                   winClickState, isDeletePending, timerLeft, idSource>>
    /\ saveEffect
    /\ UNCHANGED mountState

\* part_000 handleConfirmDelete, up to its await
handleConfirmDeleteCloud ==
    /\ variant = "cloud"
    /\ hasActiveLadder
    /\ isDeletePending
    /\ ~isSaving
    /\ isSaving' = TRUE
    /\ docs' = withoutLadder(docs, activeLadder.id)
    /\ inflight' = sentWrite("DELETE", activeLadder.id, FALSE)
    /\ snapPending' = TRUE
    /\ UNCHANGED <<variant, calc, formVars, allLadders, selectedLadderId, message,
                   winClickState, isDeletePending, timerLeft, idSource>>
    /\ saveEffect
    /\ UNCHANGED mountState

\* the awaited write is acknowledged: the rest of the handler's try block and
\* its finally block.  The listener has been told of the local write before.
writeResolved ==
    /\ variant = "cloud"
    /\ inflight.kind # "none"
    /\ inflight.status = "sent"
    /\ ~snapPending
    /\ isSaving' = FALSE
    /\ inflight' = NoWrite
    /\ IF inflight.kind = "CREATE"
       THEN /\ selectedLadderId' = inflight.id
            /\ ladderNameInput' = T_empty
            /\ startStakeInput' = T_empty
            /\ goalAmountInput' = T_empty
            /\ oddsInput' = T_empty
            /\ message' = "New ladder created."
            /\ UNCHANGED isDeletePending
       ELSE IF inflight.kind = "DELETE"
       THEN /\ selectedLadderId' = NULL
            /\ message' = "Ladder deleted."
            /\ isDeletePending' = FALSE
            /\ UNCHANGED formVars
       ELSE /\ message' = IF inflight.kind = "LOSS" THEN "LOSS. Ladder reset."
                          ELSE IF inflight.goal THEN "GOAL REACHED!"
                          ELSE "WIN confirmed!"
            /\ UNCHANGED <<selectedLadderId, isDeletePending, formVars>>
    /\ snapPending' = (selectedLadderId' # selectedLadderId)
    /\ UNCHANGED <<variant, calc, allLadders, winClickState, timerLeft, idSource, docs>>
    /\ saveEffect
    /\ UNCHANGED mountState

\* the store refuses the awaited write: the local change is taken back
storeReject ==
    /\ variant = "cloud"
    /\ inflight.kind # "none"
    /\ inflight.status = "sent"
    /\ inflight' = [inflight EXCEPT !.status = "rejected"]
    /\ docs' = inflight.before
    /\ snapPending' = TRUE
    /\ UNCHANGED <<variant, calc, formVars, allLadders, selectedLadderId, message, isSaving,
                   winClickState, isDeletePending, timerLeft, idSource>>
    /\ saveEffect
    /\ UNCHANGED mountState

\* writeRejected of a handler whose catch block is not followed by finally
writeRejected_keepsSaving ==
    /\ variant = "cloud"
    /\ inflight.kind # "none"
    /\ inflight.status = "rejected"
    /\ ~snapPending
    /\ inflight' = NoWrite
    /\ message' = IF inflight.kind = "CREATE" THEN "Error creating ladder."
                  ELSE IF inflight.kind = "DELETE" THEN "Error deleting ladder."
                  ELSE "Error processing."
    /\ isDeletePending' = IF inflight.kind = "DELETE" THEN FALSE ELSE isDeletePending
    /\ UNCHANGED <<variant, calc, formVars, allLadders, selectedLadderId, winClickState,
                   timerLeft, idSource, docs, snapPending, isSaving>>
    /\ saveEffect
    /\ UNCHANGED mountState

\* the awaited write has failed: the handler's catch and finally blocks
writeRejected ==
    /\ variant = "cloud"
    /\ inflight.kind # "none"
    /\ inflight.status = "rejected"
    /\ ~snapPending
    /\ isSaving' = FALSE
    /\ inflight' = NoWrite
    /\ message' = IF inflight.kind = "CREATE" THEN "Error creating ladder."
                  ELSE IF inflight.kind = "DELETE" THEN "Error deleting ladder."
                  ELSE "Error processing."
    /\ isDeletePending' = IF inflight.kind = "DELETE" THEN FALSE ELSE isDeletePending
    /\ UNCHANGED <<variant, calc, formVars, allLadders, selectedLadderId, winClickState,
                   timerLeft, idSource, docs, snapPending>>
    /\ saveEffect
    /\ UNCHANGED mountState

(* --------------------------- specification ----------------------------- *)
Next ==
    \/ typeInputs
    \/ handleNewLadder
    \/ handleNewLadderCloud
    \/ selectLadder
    \/ requestDelete
    \/ cancelDelete
    \/ handleConfirmDelete
    \/ handleConfirmDeleteCloud
    \/ clickWin
    \/ clickLoss
    \/ tick
    \/ winTimeout
    \/ onSnapshot
    \/ writeResolved
    \/ storeReject
    \/ writeRejected

Spec == Init /\ [][Next]_vars

\* the confirmation timeout is served: time passes and a due callback runs
FairSpec == Spec /\ WF_vars(tick) /\ WF_vars(winTimeout)

\* the store answers: the listener is called for every pending snapshot and
\* the promise of an awaited write is settled
StoreFairSpec ==
    Spec /\ WF_vars(onSnapshot) /\ WF_vars(writeResolved) /\ WF_vars(writeRejected)

(* ---------------------- the projection on its own ---------------------- *)
T_p100 == <<"+", "1", "0", "0">>
T_m200 == <<"-", "2", "0", "0">>
T_p1 == <<"+", "1">>
T_p0 == <<"+", "0">>
T_m0 == <<"-", "0">>
T_plus == <<"+">>
T_p5x == <<"+", "5", "x">>
T_pm5 == <<"+", "-", "5">>
T_s150 == <<"*", "1", "5", "0">>
T_p150sp == <<" ", "+", "1", "5", "0", " ">>

\* arguments of the calls: stakes and goals in cents, odds as texts
CalcStakes == (1..MaxStake) \cup {2000, 10000}
CalcGoals == {100, 15000, 100000}
CalcOdds == {T_p150, T_m110, T_p100, T_m200, T_p1, T_p150sp,
             T_p0, T_m0, T_abc, T_150, T_plus, T_empty, T_p5x, T_pm5, T_s150}

CalcInit ==
    /\ InitApp("local")
    /\ \E st \in CalcStakes, g \in CalcGoals, o \in CalcOdds :
            calc = [NoCalc EXCEPT !.stake = st, !.goal = g, !.odds = o,
                                  !.phase = "args"]

appVars == <<variant, formVars, allLadders, selectedLadderId, message, isSaving,
             winClickState, isDeletePending, timerLeft, idSource, storeVars,
             mountVars>>

\* calculateProfit(stake, oddsString) is called
evalProfit ==
    /\ calc.phase = "args"
    /\ \E p \in calculateProfitOutcomes(calc.stake, calc.odds) :
            calc' = [calc EXCEPT !.profit = p, !.phase = "profit"]
    /\ UNCHANGED appVars

\* calculateLadder(stake, goal, oddsStr) is called
evalLadder ==
    /\ calc.phase = "profit"
    /\ calc' = [calc EXCEPT !.ladder = calculateLadder(calc.stake, calc.goal, calc.odds),
                            !.phase = "ladder"]
    /\ UNCHANGED appVars

CalcNext ==
    \/ evalProfit
    \/ evalLadder

CalcSpec == CalcInit /\ [][CalcNext]_vars

(* ------------------- creation with any form contents ------------------- *)
T_m100 == <<"-", "1", "0", "0">>
T_0 == <<"0">>
T_sp == <<" ">>

\* forms at the edges of the validation: [name, start, goal, odds]
EdgeFills ==
    { [name |-> T_A,  start |-> T_100,  goal |-> T_150, odds |-> T_m110],
      [name |-> T_A,  start |-> T_m100, goal |-> T_150, odds |-> T_m110],
      [name |-> T_A,  start |-> T_100,  goal |-> T_150, odds |-> T_p0],
      [name |-> T_A,  start |-> T_abc,  goal |-> T_150, odds |-> T_m110],
      [name |-> T_A,  start |-> T_0,    goal |-> T_150, odds |-> T_m110],
      [name |-> T_A,  start |-> T_150,  goal |-> T_100, odds |-> T_m110],
      [name |-> T_A,  start |-> T_100,  goal |-> T_100, odds |-> T_m110],
      [name |-> T_A,  start |-> T_100,  goal |-> T_150, odds |-> T_150],
      [name |-> T_sp, start |-> T_100,  goal |-> T_150, odds |-> T_m110] }

\* the four onChange handlers of the form, with the texts of EdgeFills
typeEdgeInputs ==
    /\ variant = "cloud" => ~isSaving
    /\ Len(allLadders) < MaxCreates    \* the form is used while ladders can be created
    /\ \E f \in EdgeFills :
        /\ ladderNameInput' = f.name
        /\ startStakeInput' = f.start
        /\ goalAmountInput' = f.goal
        /\ oddsInput' = f.odds
    /\ UNCHANGED <<variant, calc, allLadders, selectedLadderId, message, isSaving,
                   winClickState, isDeletePending, timerLeft, idSource, storeVars>>
    /\ saveEffect
    /\ UNCHANGED mountState

\* handleNewLadder called at any time: Date.now() reads the wall clock in
\* milliseconds, so it may return the value it returned for an earlier
\* creation (same millisecond, clock set back) or a later one
handleNewLadderAnyTime ==
    /\ inputInvalid \/ Len(allLadders) < MaxCreates
    /\ \E now \in 1..(idSource + 1) : handleNewLadderAt(now)

\* the steps that create and delete ladders
CreateNext ==
    \/ typeEdgeInputs
    \/ handleNewLadderAnyTime
    \/ handleNewLadderCloud
    \/ requestDelete
    \/ handleConfirmDelete
    \/ handleConfirmDeleteCloud
    \/ onSnapshot
    \/ writeResolved
    \/ storeReject
    \/ writeRejected

CreateSpec == Init /\ [][CreateNext]_vars

(* ----------------------- ladders with a low stake ---------------------- *)
T_20 == <<"2", "0">>
T_60 == <<"6", "0">>

\* a ladder that starts below the cashout limit: 20 -> 50 -> goal 60
LowFills ==
    { [name |-> T_A, start |-> T_20, goal |-> T_60, odds |-> T_p150] }

\* the four onChange handlers of the form, with the texts of LowFills
typeLowInputs ==
    /\ variant = "cloud" => ~isSaving
    /\ idSource < MaxCreates
    /\ \E f \in LowFills :
        /\ ladderNameInput' = f.name
        /\ startStakeInput' = f.start
        /\ goalAmountInput' = f.goal
        /\ oddsInput' = f.odds
    /\ UNCHANGED <<variant, calc, allLadders, selectedLadderId, message, isSaving,
                   winClickState, isDeletePending, timerLeft, idSource, storeVars>>
    /\ saveEffect
    /\ UNCHANGED mountState

\* Next with the form filled from LowFills
LowNext ==
    \/ typeLowInputs
    \/ handleNewLadder
    \/ handleNewLadderCloud
    \/ selectLadder
    \/ requestDelete
    \/ cancelDelete
    \/ handleConfirmDelete
    \/ handleConfirmDeleteCloud
    \/ clickWin
    \/ clickLoss
    \/ tick
    \/ winTimeout
    \/ onSnapshot
    \/ writeResolved
    \/ storeReject
    \/ writeRejected

LowSpec == Init /\ [][LowNext]_vars

(* ------------------- a ladder that runs to the ceiling ----------------- *)
\* a form that passes the validation and whose projection has MAX_DAYS steps
\* and no goal day: the odds +0 earn nothing
LongFills ==
    { [name |-> T_A, start |-> T_100, goal |-> T_150, odds |-> T_p0] }

\* the four onChange handlers of the form, with the texts of LongFills, for
\* the one ladder of this specification
typeLongInputs ==
    /\ idSource = 0
    /\ \E f \in LongFills :
        /\ ladderNameInput' = f.name
        /\ startStakeInput' = f.start
        /\ goalAmountInput' = f.goal
        /\ oddsInput' = f.odds
    /\ UNCHANGED <<variant, calc, allLadders, selectedLadderId, message, isSaving,
                   winClickState, isDeletePending, timerLeft, idSource, storeVars>>
    /\ saveEffect
    /\ UNCHANGED mountState

LongInit ==
    /\ InitApp("local")
    /\ calc = NoCalc

\* one ladder is created and played, step after step
LongNext ==
    \/ typeLongInputs
    \/ handleNewLadder
    \/ clickWin
    \/ clickLoss
    \/ tick
    \/ winTimeout

LongSpec == LongInit /\ [][LongNext]_vars

(* ------------------- the collection open in a second tab --------------- *)
\* part_000 handleProgressUpdate('WIN') run to its end by a second instance
\* of the component on the same collection (the same user in another tab),
\* whose list is up to date: the document gets the next index and the amount
\* of the step won, and the listener of this instance is due a snapshot
remoteWin ==
    /\ variant = "cloud"
    /\ inflight.kind = "none"
    /\ \E i \in 1..Len(docs) :
        LET l == loadedLaddersOf(docs)[i]
            step == l.ladderData[l.currentDayIndex + 1]
        IN  /\ l.currentDayIndex < Len(l.ladderData)
            /\ docs' = updateDocWin(docs, l.id,
                                    IF step.isGoalDay THEN l.goalAmount
                                    ELSE step.nextBalance,
                                    l.currentDayIndex + 1)
    /\ snapPending' = TRUE
    /\ UNCHANGED <<variant, calc, formVars, allLadders, selectedLadderId, message,
                   isSaving, winClickState, isDeletePending, timerLeft, idSource,
                   inflight>>
    /\ saveEffect
    /\ UNCHANGED mountState

PeerInit ==
    /\ InitApp("cloud")
    /\ calc = NoCalc

\* ladders are created and won in this instance and won in the other one
PeerNext ==
    \/ typeInputs
    \/ handleNewLadderCloud
    \/ clickWin
    \/ tick
    \/ winTimeout
    \/ onSnapshot
    \/ writeResolved
    \/ remoteWin

PeerSpec == PeerInit /\ [][PeerNext]_vars

(* ------------------------- mounting on storage ------------------------- *)
T_S == <<"S">>

\* a ladder written to storage by an earlier visit, index steps into it
storedLadder(id, index) ==
    LET ladderData == calculateLadder(10000, 100000, T_p150)
    IN  [id |-> id,
         name |-> T_S,
         startStake |-> 10000,
         goalAmount |-> 100000,
         odds |-> T_p150,
         currentAmount |-> ladderData[index + 1].stake,
         currentDayIndex |-> index,
         ladderData |-> ladderData]

\* what storage holds under STORAGE_KEY when the app is opened
StoredItems ==
    { NoItem,
      JSON_stringify(<< >>),
      JSON_stringify(<<storedLadder(1, 1)>>),
      JSON_stringify(<<storedLadder(1, 2), storedLadder(2, 0)>>) }

\* the first render is done and no effect has run yet
MountInit ==
    /\ \E item \in StoredItems :
            InitAppWith("local", item,
                        [phase |-> "render", item |-> NoItem, ladders |-> << >>,
                         select |-> NULL],
                        IF isJsonString(item) THEN Len(JSON_parse(item)) ELSE 0)
    /\ calc = NoCalc

\* the effects of the first commit, in their order: the load effect reads the
\* item and queues setAllLadders and setSelectedLadderId, then the save
\* effect writes the list of the first render, which is empty
mountEffects ==
    /\ variant = "local"
    /\ mountState.phase = "render"
    /\ mountState' =
            IF isJsonString(localStorage)
            THEN LET ladders == JSON_parse(localStorage)
                 IN  [phase |-> "effects", item |-> localStorage, ladders |-> ladders,
                      select |-> IF Len(ladders) > 0 /\ selectedLadderId = NULL
                                 THEN ladders[1].id ELSE selectedLadderId]
            ELSE Mounted
    /\ localStorage' = JSON_stringify(allLadders)
    /\ UNCHANGED <<variant, calc, formVars, allLadders, selectedLadderId, message,
                   isSaving, winClickState, isDeletePending, timerLeft, idSource,
                   storeVars>>

\* the render the load effect asked for, and the save effect after it
rerender ==
    /\ variant = "local"
    /\ mountState.phase = "effects"
    /\ allLadders' = mountState.ladders
    /\ selectedLadderId' = mountState.select
    /\ mountState' = Mounted
    /\ saveEffect
    /\ UNCHANGED <<variant, calc, formVars, message, isSaving, winClickState,
                   isDeletePending, timerLeft, idSource, storeVars>>

\* the handlers, which the user reaches once the component is mounted
afterMount ==
    /\ mountState.phase = "mounted"
    /\ \/ typeInputs
       \/ handleNewLadder
       \/ selectLadder
       \/ requestDelete
       \/ cancelDelete
       \/ handleConfirmDelete
       \/ clickWin
       \/ clickLoss
       \/ tick
       \/ winTimeout

MountNext ==
    \/ mountEffects
    \/ rerender
    \/ afterMount

MountSpec == MountInit /\ [][MountNext]_vars

(* ------------------------- properties: helpers ------------------------- *)
expiredNotice == "Confirmation window expired. Tap Win again."

\* the pairs <<l, m>> of a ladder l before a step and the ladder m with the
\* same id after it
sameIdPairs(before, after) ==
    { p \in { <<before[i], after[j]>> : i \in 1..Len(before), j \in 1..Len(after) } :
        p[1].id = p[2].id }

isActive(l) == l.currentDayIndex < Len(l.ladderData)
isComplete(l) == l.currentDayIndex = Len(l.ladderData)

\* the ladders as they stand: the component's list, or in the cloud variant
\* the documents of the collection, which the component's list follows
ladders == IF variant = "local" THEN allLadders ELSE loadedLaddersOf(docs)

\* a step in which the store takes back a write it refuses
takeBackStep ==
    /\ inflight.kind # "none"
    /\ inflight'.kind # "none"
    /\ inflight.status = "sent"
    /\ inflight'.status = "rejected"

\* a step in which the second tap of the confirmation is taken
secondTapStep ==
    /\ winClickState = "pending"
    /\ winClickState' = "ready"
    /\ message' # expiredNotice

(* ------------------------------ claims --------------------------------- *)
\* C1: whenever the selected ladder changes while a win confirmation is
\* pending (selector, new ladder, delete), the confirmation is reset to ready
\* and its expiry is cancelled.
C1_SelectionChangeResetsConfirmation ==
    [][(winClickState = "pending" /\ selectedLadderId' # selectedLadderId)
        => (winClickState' = "ready" /\ timerLeft' = NoTimer)]_vars

\* C2: a first Win tap while the confirmation is ready moves it to pending and
\* starts the 3000 ms expiry, and applies no win: no ladder and no document
\* changes and no write is started.
C2_FirstTapDoesNotApplyWin ==
    [][((clickWin /\ winClickState = "ready")
            \/ (winClickState = "ready" /\ winClickState' = "pending"))
        => /\ winClickState' = "pending"
           /\ timerLeft' = WIN_TIMEOUT_MS
           /\ allLadders' = allLadders
           /\ docs' = docs
           /\ inflight' = inflight
           /\ isSaving' = isSaving]_vars

\* a first tap has been made on a ladder that is past its first step
C2_Witness ==
    /\ winClickState = "pending"
    /\ timerLeft = WIN_TIMEOUT_MS
    /\ message = "Tap WIN again to confirm."
    /\ hasActiveLadder
    /\ activeLadder.currentDayIndex = 1

\* C3: a second Win tap while the confirmation is pending returns it to ready,
\* cancels the expiry, and applies the win exactly once to the selected ladder:
\* that ladder's step index goes up by one (in the cloud variant: in the write
\* that is sent) and no other ladder moves.
C3_SecondTapAppliesWinOnce ==
    [][secondTapStep
        => /\ timerLeft' = NoTimer
           /\ hasActiveLadder
           /\ LET before == IF variant = "local" THEN allLadders ELSE docs
                  after == IF variant = "local" THEN allLadders' ELSE docs'
              IN  /\ Len(after) = Len(before)
                  /\ \A i \in 1..Len(before) :
                        /\ after[i].id = before[i].id
                        /\ after[i].currentDayIndex =
                             IF before[i].id = selectedLadderId
                             THEN before[i].currentDayIndex + 1
                             ELSE before[i].currentDayIndex
           /\ variant = "cloud" => (inflight'.kind = "WIN" /\ inflight.kind = "none")]_vars

\* a confirmed win has been applied and the confirmation is ready again
C3_Witness ==
    /\ winClickState = "ready"
    /\ timerLeft = NoTimer
    /\ message = "WIN confirmed!"
    /\ hasActiveLadder
    /\ activeLadder.currentDayIndex = 2

\* C4: when the 3000 ms pass without a second tap the expiry fires, the
\* confirmation returns from pending to ready with the expired notice and no
\* win is applied: a step out of pending is either a Win click or the expiry,
\* which changes no ladder; and a pending confirmation always returns to ready.
C4_ExpiryReturnsToReady ==
    /\ [][(winClickState = "pending" /\ winClickState' = "ready")
          => \/ clickWin
             \/ /\ timerLeft = 0
                /\ timerLeft' = NoTimer
                /\ message' = expiredNotice
                /\ allLadders' = allLadders
                /\ docs' = docs
                /\ inflight' = inflight]_vars
    /\ ((winClickState = "pending") ~> (winClickState = "ready"))

\* the expiry has fired on a ladder that stays at its step
C4_Witness ==
    /\ winClickState = "ready"
    /\ timerLeft = NoTimer
    /\ message = expiredNotice
    /\ hasActiveLadder
    /\ activeLadder.currentDayIndex = 1

\* C5: when a delete confirmation becomes pending while a win confirmation is
\* pending, the win confirmation is reset to ready and its expiry cancelled.
C5_DeleteRequestResetsConfirmation ==
    [][(winClickState = "pending" /\ ~isDeletePending /\ isDeletePending')
        => (winClickState' = "ready" /\ timerLeft' = NoTimer)]_vars

\* the ladder m is the ladder l after one win
wonOnce(l, m) ==
    LET step == l.ladderData[l.currentDayIndex + 1]
    IN  /\ isActive(l)
        /\ m.currentDayIndex = l.currentDayIndex + 1
        /\ m.currentAmount = IF step.isGoalDay THEN l.goalAmount ELSE step.nextBalance
        /\ step.isGoalDay => isComplete(m)

\* C6: a win applied to an ACTIVE ladder reads the step at currentDayIndex,
\* sets currentAmount to goalAmount on the goal day and to the step's
\* nextBalance otherwise, and raises currentDayIndex by one; after the goal
\* day the ladder is in GOAL_REACHED.  (A refused write being taken back by
\* the store is not a win.)
C6_WinSetsAmountAndIndex ==
    [][~takeBackStep =>
        \A p \in sameIdPairs(ladders, ladders') :
            p[2].currentDayIndex > p[1].currentDayIndex => wonOnce(p[1], p[2])]_vars

\* a ladder has won its goal day, and holds the goal amount, which is less
\* than the balance projected for that day
C6_Witness ==
    \E i \in 1..Len(allLadders) :
        LET l == allLadders[i]
        IN  /\ isComplete(l)
            /\ l.currentAmount = l.goalAmount
            /\ l.ladderData[Len(l.ladderData)].nextBalance > l.goalAmount

\* C7: a Win invoked on a ladder in GOAL_REACHED is reported ("Goal already
\* reached"), and the confirmation is not left pending.
C7_WinOnCompleteLadderReported ==
    isGoalReached =>
        /\ winClickState = "ready"
        /\ ENABLED (/\ handleWinTap
                    /\ message' = "Goal already reached. No more steps."
                    /\ allLadders' = allLadders)

\* C8: wins raise a ladder's step index by exactly one each, never past the
\* number of steps, and once the ladder is in GOAL_REACHED its index and
\* amount no longer move.
C8_WinsMonotoneUntilGoal ==
    [][~takeBackStep =>
        \A p \in sameIdPairs(ladders, ladders') :
          /\ p[2].currentDayIndex > p[1].currentDayIndex
                => /\ p[2].currentDayIndex = p[1].currentDayIndex + 1
                   /\ p[2].currentDayIndex <= Len(p[2].ladderData)
          /\ (secondTapStep /\ p[1].id = selectedLadderId)
                => p[2].currentDayIndex > p[1].currentDayIndex
          /\ isComplete(p[1])
                => /\ p[2].currentDayIndex = p[1].currentDayIndex
                   /\ p[2].currentAmount = p[1].currentAmount]_vars

\* a ladder of three steps has been won up to its goal
C8_Witness ==
    \E i \in 1..Len(allLadders) :
        /\ isComplete(allLadders[i])
        /\ allLadders[i].currentDayIndex = 3

\* C9: a loss applied to an ACTIVE ladder, at any step index, resets
\* currentAmount to startStake and currentDayIndex to 0 and leaves the ladder
\* ACTIVE.  (A refused write being taken back by the store is not a loss.)
C9_LossResetsToStart ==
    [][~takeBackStep =>
        \A p \in sameIdPairs(ladders, ladders') :
            (\/ p[2].currentDayIndex < p[1].currentDayIndex
             \/ (variant = "local" /\ message # "LOSS. Ladder reset."
                   /\ message' = "LOSS. Ladder reset."
                   /\ p[1].id = selectedLadderId)
             \/ (inflight.kind = "none" /\ inflight'.kind = "LOSS"
                   /\ p[1].id = selectedLadderId))
            => /\ isActive(p[1])
               /\ p[2].currentAmount = p[1].startStake
               /\ p[2].currentDayIndex = 0
               /\ isActive(p[2])]_vars

\* a loss is being written for a ladder that had advanced two steps: the
\* documents before the write hold step index 2, the documents after it hold
\* the start stake and step index 0
C9_Witness ==
    /\ variant = "cloud"
    /\ inflight.kind = "LOSS"
    /\ inflight.status = "sent"
    /\ \E i \in 1..Len(docs) :
        /\ docs[i].id = inflight.id
        /\ inflight.before[i].currentDayIndex = 2
        /\ inflight.before[i].currentAmount > docs[i].startStake
        /\ docs[i].currentDayIndex = 0
        /\ docs[i].currentAmount = docs[i].startStake

\* C10: applying Loss twice in a row gives the ladder state that applying it
\* once gives: after a Loss step the ladder has currentAmount = startStake and
\* currentDayIndex = 0, and the Loss update applied again changes nothing.
C10_LossIdempotent ==
    [][(clickLoss /\ ~lossDisabled)
        => /\ variant = "local" =>
                /\ mapLoss(allLadders', activeLadder.id) = allLadders'
                /\ allLadders'[activeIndex].currentAmount = activeLadder.startStake
                /\ allLadders'[activeIndex].currentDayIndex = 0
           /\ variant = "cloud" =>
                updateDocLoss(docs', activeLadder.id, activeLadder.startStake) = docs']_vars

\* a loss has been applied to the selected ladder of three steps, which is at
\* its start, and Loss is available a second time
C10_Witness ==
    /\ variant = "local"
    /\ message = "LOSS. Ladder reset."
    /\ ~lossDisabled
    /\ Len(activeLadder.ladderData) = 3
    /\ activeLadder.currentDayIndex = 0

\* C11: Loss is valid from ACTIVE only.  A Loss click is taken on an ACTIVE
\* ladder only, and a ladder in GOAL_REACHED keeps its step index and its
\* amount, the goal amount, in every step that does not delete it.  (A refused
\* write being taken back by the store is not a loss.)
C11_NoLossOnceGoalReached ==
    [][/\ clickLoss => (hasActiveLadder /\ isActive(activeLadder))
       /\ ~takeBackStep =>
            \A p \in sameIdPairs(ladders, ladders') :
                isComplete(p[1]) => /\ isComplete(p[2])
                                    /\ p[2].currentAmount = p[1].goalAmount]_vars

\* a ladder of three steps is in GOAL_REACHED and selected, with nothing but
\* the goal check keeping the Loss button disabled
C11_Witness ==
    /\ isGoalReached
    /\ Len(activeLadder.ladderData) = 3
    /\ lossDisabled
    /\ isLadderReady
    /\ ~isSaving
    /\ winClickState = "ready"
    /\ ~isDeletePending

\* C12: the selection does not dangle: selectedLadderId is null or the id of a
\* ladder of the list, in every state, whichever ladder a confirmed Delete
\* removed and however many ladders remain.
C12_SelectionDoesNotDangle ==
    \/ selectedLadderId = NULL
    \/ \E i \in 1..Len(allLadders) : allLadders[i].id = selectedLadderId

\* C15: in a projected sequence only the last step can be a goal day, so at
\* most one step is; and when the sequence reaches the goal (the inputs
\* converge within 500 steps) its last step is a goal day with nextBalance >=
\* goal.
C15_GoalDayIsLastStep ==
    calc.phase = "ladder" =>
        LET L == calc.ladder
        IN  /\ \A i \in 1..Len(L) : L[i].isGoalDay => i = Len(L)
            /\ (\E i \in 1..Len(L) : L[i].nextBalance >= calc.goal)
                    => /\ L[Len(L)].isGoalDay
                       /\ L[Len(L)].nextBalance >= calc.goal
            /\ Len(L) <= MAX_DAYS

\* a projection of three steps or more that ends on its goal day
C15_Witness ==
    /\ calc.phase = "ladder"
    /\ Len(calc.ladder) >= 3
    /\ calc.ladder[Len(calc.ladder)].isGoalDay
    /\ calc.ladder[Len(calc.ladder)].nextBalance > calc.goal

\* the text is a sign character followed by digits only
isSignedDigits(s, sign) ==
    /\ Len(s) >= 2
    /\ s[1] = sign
    /\ \A i \in 2..Len(s) : s[i] \in Digits

\* C17: for a positive stake s and odds "+N" with N > 0 the profit is
\* s * N/100 rounded to 2 decimal places, and for odds "-N" it is s / (N/100)
\* rounded to 2 decimal places: the profit in cents is the exact quotient
\* rounded to the nearest cent, a half going up or to the even cent.
C17_ProfitIsRoundedQuotient ==
    (calc.phase \in {"profit", "ladder"} /\ calc.stake > 0) =>
        LET N == DigitsValue(calc.odds, 2, Len(calc.odds) - 1)
            plus == isSignedDigits(calc.odds, "+")
            a == IF plus THEN calc.stake * N ELSE 100 * calc.stake
            b == IF plus THEN 100 ELSE N
            q == a \div b
            halfUp == IF 2 * (a % b) >= b THEN q + 1 ELSE q
            halfEven == IF 2 * (a % b) > b \/ (2 * (a % b) = b /\ q % 2 = 1)
                        THEN q + 1 ELSE q
        IN  ((plus \/ isSignedDigits(calc.odds, "-")) /\ N > 0)
                => calc.profit \in {halfUp, halfEven}

\* the text is a decimal numeral: an optional sign, then digits with at most
\* one decimal point, and nothing else
isNumeral(m) ==
    LET body == IF Len(m) > 0 /\ m[1] \in {"+", "-"} THEN Tail(m) ELSE m
    IN  /\ \E i \in 1..Len(body) : body[i] \in Digits
        /\ \A i \in 1..Len(body) : body[i] \in Digits \cup {"."}
        /\ Cardinality({i \in 1..Len(body) : body[i] = "."}) <= 1

\* the odds text is malformed: shorter than 2 characters, no leading + or -,
\* a magnitude that is not a number, or a magnitude that is zero or negative
malformedOdds(odds) ==
    LET t == trim(odds)
        m == slice(t, 1)
    IN  \/ Len(t) < 2
        \/ t[1] \notin {"+", "-"}
        \/ ~isNumeral(m)
        \/ parseFloat(m) <= 0

\* C18: for malformed odds the profit is 0 for every stake, returned as a
\* value.
C18_MalformedOddsGiveZero ==
    (calc.phase \in {"profit", "ladder"} /\ malformedOdds(calc.odds))
        => calc.profit = 0

\* the amount a text entered in a money field stands for, in cents: a decimal
\* numeral, with a currency sign in front of it or not; NaN for other texts
enteredAmount(t) ==
    LET u == trim(t)
        v == IF Len(u) > 0 /\ u[1] = "$" THEN Tail(u) ELSE u
    IN  IF isNumeral(v) THEN parseFloat(v) ELSE NaN

\* the form holds an empty name, a start stake that is not a number or not
\* positive, a goal that is not above the start stake, or odds that do not
\* match ^[+-]\d+$
enteredInvalid ==
    \/ trim(ladderNameInput) = << >>
    \/ isNaN(enteredAmount(startStakeInput))
    \/ enteredAmount(startStakeInput) <= 0
    \/ isNaN(enteredAmount(goalAmountInput))
    \/ enteredAmount(goalAmountInput) <= enteredAmount(startStakeInput)
    \/ ~matchOdds(trim(oddsInput))

\* C13: a creation asked for with an empty name, a non-numeric or
\* non-positive start stake, a goal not above the start stake, or odds not
\* matching ^[+-]\d+$ is rejected: no ladder is added, no write is sent, the
\* selection and the existing ladders are unchanged, and the form keeps its
\* texts.
C13_InvalidInputsRejected ==
    [][((handleNewLadderAnyTime \/ handleNewLadderCloud) /\ enteredInvalid)
        => /\ allLadders' = allLadders
           /\ docs' = docs
           /\ inflight' = inflight
           /\ selectedLadderId' = selectedLadderId
           /\ idSource' = idSource
           /\ formVars' = formVars]_vars

\* the step sequence has a goal day
hasGoalDay(ladderData) == \E i \in 1..Len(ladderData) : ladderData[i].isGoalDay

\* C14: no ladder is ever created whose step sequence contains no goal day: a
\* projection that is empty, or that ran to the 500-step ceiling without a
\* goal day, makes the creation fail.
C14_CreatedLaddersHaveGoalDay ==
    \A i \in 1..Len(ladders) : hasGoalDay(ladders[i].ladderData)

\* C16: every ladder that exists, in the list and in the stored documents,
\* has a non-empty step sequence; a creation that would give an empty one is
\* rejected.
C16_LaddersHaveSteps ==
    /\ \A i \in 1..Len(allLadders) : Len(allLadders[i].ladderData) > 0
    /\ \A i \in 1..Len(ladders) : Len(ladders[i].ladderData) > 0

\* with a ladder in the list, a creation whose goal is below its start stake,
\* and whose projection would be empty, has been rejected
C16_Witness ==
    /\ Len(allLadders) > 0
    /\ message = "Invalid input."
    /\ startStakeInput = T_150
    /\ goalAmountInput = T_100
    /\ calculateLadder(newStart, newGoal, newOdds) = << >>

\* C20: ladder ids are unique and never reused: no two ladders of the ladder
\* set share an id, and a ladder that is added gets an id that no ladder had
\* before, also when ladders are created in quick succession or after a
\* delete.  (The store putting back a document whose delete it refused adds no
\* ladder.)
C20_IdsUniqueNeverReused ==
    /\ [](\A i, j \in 1..Len(ladders) : i # j => ladders[i].id # ladders[j].id)
    /\ [][(~takeBackStep /\ Len(ladders') > Len(ladders))
            => ladders'[Len(ladders')].id > idSource]_vars

C21_MutationsSerialized ==
    /\ [](isSaving <=> inflight.kind # "none")
    /\ [][/\ (inflight' # inflight /\ inflight'.kind # "none" /\ ~takeBackStep)
                => (~isSaving /\ inflight.kind = "none" /\ isSaving')
          /\ isSaving
                => /\ docs' = docs \/ takeBackStep
                   /\ inflight' = inflight \/ takeBackStep \/ inflight'.kind = "none"
          /\ (variant = "local" /\ allLadders' # allLadders) => ~isSaving]_vars

\* a create is in flight while a delete confirmation is open on the selected
\* ladder: the Confirm button is there to be tapped, and is disabled
C21_Witness ==
    /\ variant = "cloud"
    /\ isSaving
    /\ inflight.kind = "CREATE"
    /\ inflight.status = "sent"
    /\ isDeletePending
    /\ hasActiveLadder

\* a step in which the handler of a refused write finishes (catch and finally)
rejectedDone ==
    /\ inflight.kind # "none"
    /\ inflight.status = "rejected"
    /\ inflight'.kind = "none"

\* C22: a failed store write leaves the previously observed state intact.
\* When the handler of a refused write has finished, the documents and the
\* ladders of the list are those from before the write (a refused win or loss
\* leaves currentAmount and currentDayIndex as they were, a refused create
\* adds no ladder), and after a refused delete the ladder is in the list and
\* is the selected ladder.
C22_FailedWriteLeavesStateIntact ==
    [][rejectedDone
        => /\ docs' = inflight.before
           /\ allLadders' = loadedLaddersOf(inflight.before)
           /\ inflight.kind = "DELETE"
                => /\ \E i \in 1..Len(allLadders') : allLadders'[i].id = inflight.id
                   /\ selectedLadderId' = inflight.id]_vars

C24_StakesChain ==
    calc.phase = "ladder" =>
        LET L == calc.ladder
        IN  /\ Len(L) > 0 => L[1].stake = calc.stake
            /\ \A i \in 2..Len(L) : L[i].stake = L[i - 1].nextBalance
            /\ \A i \in 1..Len(L) : L[i].nextBalance = L[i].stake + L[i].profit

\* a projection of three steps or more whose stake grows from step to step
C24_Witness ==
    /\ calc.phase = "ladder"
    /\ Len(calc.ladder) >= 3
    /\ calc.ladder[1].stake = calc.stake
    /\ calc.ladder[2].stake > calc.ladder[1].stake
    /\ calc.ladder[3].stake > calc.ladder[2].stake

\* C25: in every projected sequence the step at position i (counted from 0)
\* has day number i + 1: day numbers run 1, 2, 3, ... without a gap.
C25_DaysAreSequential ==
    calc.phase = "ladder" =>
        \A i \in 1..Len(calc.ladder) : calc.ladder[i].day = i

\* a projection that reaches its goal after more than ten days, its last
\* step carrying the number of steps as its day
C25_Witness ==
    /\ calc.phase = "ladder"
    /\ Len(calc.ladder) > 10
    /\ calc.ladder[Len(calc.ladder)].isGoalDay
    /\ calc.ladder[Len(calc.ladder)].day = Len(calc.ladder)

\* C26: the projection returns at most 500 steps, none with a day number above
\* 500 (the day counter, which rises with every pass, ends the loop); when
\* the goal is not reached within 500 steps (the start stake is below the goal
\* and no step's nextBalance comes up to it) it returns exactly 500 steps and
\* no step, the last included, is a goal day.
C26_CeilingOf500Steps ==
    calc.phase = "ladder" =>
        LET L == calc.ladder
        IN  /\ Len(L) <= MAX_DAYS
            /\ \A i \in 1..Len(L) : L[i].day <= MAX_DAYS
            /\ (/\ calc.stake < calc.goal
                /\ \A i \in 1..Len(L) : L[i].nextBalance < calc.goal)
                    => /\ Len(L) = MAX_DAYS
                       /\ \A i \in 1..Len(L) : ~L[i].isGoalDay

\* with odds +1, which are well formed, a stake of a few cents earns nothing
\* and never grows: the projection has 500 steps and no goal day
C26_Witness ==
    /\ calc.phase = "ladder"
    /\ calc.odds = T_p1
    /\ Len(calc.ladder) = MAX_DAYS
    /\ calc.ladder[MAX_DAYS].profit = 0
    /\ calc.ladder[MAX_DAYS].stake = calc.stake
    /\ ~calc.ladder[MAX_DAYS].isGoalDay

sameDefinition(l, m) ==
    /\ m.id = l.id
    /\ m.name = l.name
    /\ m.startStake = l.startStake
    /\ m.goalAmount = l.goalAmount
    /\ m.odds = l.odds
    /\ m.ladderData = l.ladderData

\* C29: Win and Loss change only a ladder's currentAmount and
\* currentDayIndex (and its timestamp, which nothing reads): in every step a
\* ladder that stays keeps its id, name, startStake, goalAmount, odds and step
\* sequence, in the list and in the documents, and in every state the step
\* sequence is the projection of startStake, goalAmount and odds made at
\* creation.
C29_WinLossKeepDefinition ==
    /\ [][/\ \A p \in sameIdPairs(ladders, ladders') : sameDefinition(p[1], p[2])
          /\ \A q \in sameIdPairs(allLadders, allLadders') : sameDefinition(q[1], q[2])]_vars
    /\ [](\A i \in 1..Len(ladders) :
            ladders[i].ladderData =
                calculateLadder(ladders[i].startStake, ladders[i].goalAmount,
                                ladders[i].odds))

\* cloud variant: after a win, then a loss, the selected ladder is back at its
\* start with the three steps projected at its creation
C29_Witness ==
    /\ variant = "cloud"
    /\ message = "LOSS. Ladder reset."
    /\ hasActiveLadder
    /\ activeLadder.currentDayIndex = 0
    /\ Len(activeLadder.ladderData) = 3
    /\ activeLadder.ladderData =
            calculateLadder(activeLadder.startStake, activeLadder.goalAmount,
                            activeLadder.odds)

\* the sequence s without its element at position k
withoutPosition(s, k) == SubSeq(s, 1, k - 1) \o SubSeq(s, k + 1, Len(s))

C31_TimerCancelledWithConfirmation ==
    /\ [](timerLeft # NoTimer => winClickState = "pending")
    /\ [][/\ secondTapStep => timerLeft' = NoTimer
          /\ selectedLadderId' # selectedLadderId => timerLeft' = NoTimer]_vars

\* C32: for every input that passes the validation of handleNewLadder, the
\* odds pattern included, every projected step has a profit above 0, so the
\* stakes rise from step to step and no ladder of 500 equal steps is made:
\* every ladder that exists has such steps.
C32_ValidInputsGivePositiveProfit ==
    \A i \in 1..Len(ladders) :
        LET L == ladders[i].ladderData
        IN  /\ \A k \in 1..Len(L) : L[k].profit > 0
            /\ \A k \in 2..Len(L) : L[k].stake > L[k - 1].stake

\* the balance of an ACTIVE ladder is the stake of its next step
amountIsNextStake(l) ==
    isActive(l) => l.currentAmount = l.ladderData[l.currentDayIndex + 1].stake

C34_CompleteAmountIsGoal ==
    \A i \in 1..Len(ladders) :
        isComplete(ladders[i]) => ladders[i].currentAmount = ladders[i].goalAmount

\* C35: a confirmed Delete removes only the ladder that was selected when the
\* delete was requested: whenever the selection changes while the delete
\* confirmation is pending (selector, new ladder, snapshot), the confirmation
\* is cancelled.  (The selection moving because of the delete itself, while
\* its write is awaited, is not such a change.)
C35_SelectionChangeCancelsDelete ==
    [][(isDeletePending /\ inflight.kind # "DELETE"
            /\ selectedLadderId' # selectedLadderId)
        => ~isDeletePending']_vars

\* C36: in the cloud variant every Win that is written advances the stored
\* currentDayIndex by exactly one over the value stored at the time of the
\* write, also when the snapshot carrying the previous write has not been
\* delivered to the component: the step that sends a Win raises the index of
\* the ladder's document by one.
C36_WinWritesNextStoredIndex ==
    [][(inflight.kind = "none" /\ inflight'.kind = "WIN")
        => \E i \in 1..Len(docs) :
                /\ docs[i].id = inflight'.id
                /\ docs'[i].currentDayIndex = docs[i].currentDayIndex + 1]_vars

winStep ==
    \/ inflight.kind = "none" /\ inflight'.kind = "WIN"
    \/ /\ variant = "local"
       /\ message' \in {"WIN confirmed!", "GOAL REACHED!"}
       /\ allLadders' # allLadders

\* a step in which a loss is applied: the ladder is reset (local) or the
\* write of the loss is sent (cloud)
lossStep ==
    \/ inflight.kind = "none" /\ inflight'.kind = "LOSS"
    \/ /\ variant = "local"
       /\ message' = "LOSS. Ladder reset."
       /\ (allLadders' # allLadders \/ message # message')

\* C39: no Loss is applied while a win confirmation is pending, and no Win or
\* Loss is applied while a delete confirmation is pending.
C39_NoProgressWhileConfirming ==
    [][/\ lossStep => (winClickState = "ready" /\ ~isDeletePending)
       /\ winStep => ~isDeletePending]_vars

\* a win confirmation and a delete confirmation are both outstanding on a
\* ladder that has steps left, with nothing being saved: Win and Loss are
\* held back by the confirmations alone
C39_Witness ==
    /\ isDeletePending
    /\ winClickState = "pending"
    /\ isLadderReady
    /\ ~isGoalReached
    /\ ~isSaving

====
